---- MODULE Spec2Model ----
(***************************************************************************)
(* A model of get_route_csv.py: the vehicle list loader, the per-vehicle   *)
(* login / history / resolve / download loop of __main__, the export URL   *)
(* and the renaming of the most recently created CSV file.                 *)
(*                                                                         *)
(* A Python str is a sequence of one-character strings, so that strip,     *)
(* startswith, slicing and substring tests are computed, not assumed.      *)
(***************************************************************************)
EXTENDS Integers, Sequences, FiniteSets, TLC

VARIABLES
    pc,          \* where __main__ is: the next call, or how the process ended
    vehicles_f,  \* ./vehicles_list.txt: whether it can be opened, and its text
    vehicles,    \* __main__'s vehicles
    i,           \* 1-based position of the for loop in vehicles
    vehicle_id,  \* __main__'s vehicle_id: <<registration, option value>>
    today,       \* the calendar day datetime.now() falls on
    url,         \* the address of the last driver.get
    titles,      \* the values of driver.title read by the last call made
    ui,          \* the element interactions of the last call made
    files,       \* the working (download) directory
    pending,     \* downloads the browser has started and not yet finished
    clock,       \* the file system's clock for creation times
    log,         \* what the handler wrote to ./get_routes.log
    err,         \* the exception that ended the run, if any
    trace,       \* the calls __main__ has made, in order
    renames      \* the os.rename calls made, in order

vars == <<pc, vehicles_f, vehicles, i, vehicle_id, today, url, titles, ui,
          files, pending, clock, log, err, trace, renames>>

(***************************************************************************)
(* Bounds of the model.                                                    *)
(***************************************************************************)
MaxLines == 3      \* lines of the vehicle list in a run of the whole script
MaxFileLen == 4    \* characters of the vehicle list when the loader is checked alone
MaxTok == 1        \* pieces a registration or option value is made of
MaxDirFiles == 2   \* CSV files in the directory when the renaming is checked alone

(***************************************************************************)
(* str                                                                     *)
(***************************************************************************)
Whitespace == {" ", "\t", "\n", "\r"}

RECURSIVE LStrip(_)
LStrip(s) == IF s # <<>> /\ Head(s) \in Whitespace THEN LStrip(Tail(s)) ELSE s

RECURSIVE RStrip(_)
RStrip(s) ==
    IF s # <<>> /\ s[Len(s)] \in Whitespace
    THEN RStrip(SubSeq(s, 1, Len(s) - 1))
    ELSE s

\* str.strip()
Strip(s) == RStrip(LStrip(s))

\* str.startswith(p)
StartsWith(s, p) == Len(s) >= Len(p) /\ SubSeq(s, 1, Len(p)) = p

\* str.endswith(p)
EndsWith(s, p) == Len(s) >= Len(p) /\ SubSeq(s, Len(s) - Len(p) + 1, Len(s)) = p

\* p in s
Contains(s, p) == \E k \in 1..(Len(s) - Len(p) + 1) : SubSeq(s, k, k + Len(p) - 1) = p

\* s[a:-b] for a, b >= 0 (Python's 0-based slice with a negative end)
Slice(s, a, b) == SubSeq(s, a + 1, Len(s) - b)

RECURSIVE Join(_)
Join(parts) == IF parts = <<>> THEN <<>> ELSE Head(parts) \o Join(Tail(parts))

\* All sequences over S of length at most n
RECURSIVE SeqsUpTo(_, _)
SeqsUpTo(S, n) ==
    IF n = 0 THEN {<<>>}
    ELSE LET shorter == SeqsUpTo(S, n - 1)
         IN  shorter \cup {Append(s, x) : s \in shorter, x \in S}

(***************************************************************************)
(* get_vehicles                                                            *)
(***************************************************************************)
\* file.readlines(): the text cut after every newline, newlines kept
RECURSIVE ReadLines(_)
ReadLines(text) ==
    IF text = <<>> THEN <<>>
    ELSE LET ends == {k \in 1..Len(text) : text[k] = "\n"}
         IN  IF ends = {} THEN <<text>>
             ELSE LET nl == CHOOSE k \in ends : \A m \in ends : k <= m
                  IN  <<SubSeq(text, 1, nl)>>
                          \o ReadLines(SubSeq(text, nl + 1, Len(text)))

\* A loader that strips before it tests for the comment mark
GetVehiclesStripFirst(text) ==
    LET lines == ReadLines(text)
        kept == SelectSeq(lines, LAMBDA veh : ~StartsWith(Strip(veh), <<"#">>))
    IN  [k \in 1..Len(kept) |-> Strip(kept[k])]

\* [veh.strip() for veh in vehicles if not veh.startswith('#')]
GetVehicles(text) ==
    LET lines == ReadLines(text)
        kept == SelectSeq(lines, LAMBDA veh : ~StartsWith(veh, <<"#">>))
    IN  [k \in 1..Len(kept) |-> Strip(kept[k])]

(***************************************************************************)
(* datetime                                                                *)
(***************************************************************************)
IsLeap(y) == (y % 4 = 0) /\ ((y % 100 # 0) \/ (y % 400 = 0))

DaysInMonth(y, m) ==
    IF m = 2 THEN (IF IsLeap(y) THEN 29 ELSE 28)
    ELSE IF m \in {4, 6, 9, 11} THEN 30 ELSE 31

\* A day before that does not borrow from the month
YesterdayWithinMonth(d) == [d EXCEPT !.day = IF d.day > 1 THEN d.day - 1 ELSE 1]

\* datetime.now() - timedelta(days=1), as a calendar day
Yesterday(d) ==
    IF d.day > 1 THEN [d EXCEPT !.day = d.day - 1]
    ELSE IF d.month > 1
         THEN [year |-> d.year, month |-> d.month - 1,
               day |-> DaysInMonth(d.year, d.month - 1)]
         ELSE [year |-> d.year - 1, month |-> 12, day |-> 31]

Digit(n) == <<"0", "1", "2", "3", "4", "5", "6", "7", "8", "9">>[n + 1]

\* %d and %m: two digits, zero padded
Pad2(n) == <<Digit((n \div 10) % 10), Digit(n % 10)>>

\* %Y: four digits
Pad4(n) == <<Digit((n \div 1000) % 10), Digit((n \div 100) % 10),
             Digit((n \div 10) % 10), Digit(n % 10)>>

\* strftime('%d/%m/%Y')
Strftime(d) == Pad2(d.day) \o <<"/">> \o Pad2(d.month) \o <<"/">> \o Pad4(d.year)

(***************************************************************************)
(* download_csv: the export URL                                            *)
(***************************************************************************)
\* 'https://www.dennisconnect.co.uk/_handler/csv.ashx?'
UrlHandler == <<"h","t","t","p","s",":","/","/","w","w","w",".","d","e","n","n","i","s","c","o","n","n","e","c","t",".","c","o",".","u","k","/","_","h","a","n","d","l","e","r","/","c","s","v",".","a","s","h","x","?">>
\* 'req=HISTORY_LIST&'
UrlReq == <<"r","e","q","=","H","I","S","T","O","R","Y","_","L","I","S","T","&">>
\* 'sdate='
UrlSdate == <<"s","d","a","t","e","=">>
\* '%2000:00&edate='
UrlEdate == <<"%","2","0","0","0",":","0","0","&","e","d","a","t","e","=">>
\* '%2023:59'
UrlEndOfDay == <<"%","2","0","2","3",":","5","9">>
\* '&atype=V&aid='
UrlAid == <<"&","a","t","y","p","e","=","V","&","a","i","d","=">>
\* '&aname='
UrlAname == <<"&","a","n","a","m","e","=">>
\* '&locfil=&useshape=false&dtl=0&s2r=false'
UrlFilters == <<"&","l","o","c","f","i","l","=","&","u","s","e","s","h","a","p","e","=","f","a","l","s","e","&","d","t","l","=","0","&","s","2","r","=","f","a","l","s","e">>
\* '&showdriverbehavioralerts=false'
UrlAlerts == <<"&","s","h","o","w","d","r","i","v","e","r","b","e","h","a","v","i","o","r","a","l","e","r","t","s","=","f","a","l","s","e">>

\* url, for dropdown_option = (registration, option value)
DownloadUrl(dropdown_option, now) ==
    LET aid == dropdown_option[2]
        aname == dropdown_option[1]
        yesterday == Strftime(Yesterday(now))
    IN  Join(<<UrlHandler, UrlReq, UrlSdate, yesterday, UrlEdate, yesterday,
               UrlEndOfDay, UrlAid, aid, UrlAname, aname, UrlFilters, UrlAlerts>>)

(***************************************************************************)
(* download_csv: the downloaded file                                       *)
(***************************************************************************)
DotSlash == <<".", "/">>
DotCsv == <<".", "c", "s", "v">>

\* The directory is a set of [name, ctime, origin]: origin is the position in
\* vehicles of the download that produced the file, 0 for a file that was
\* there before the run.
PathOf(f) == DotSlash \o f.name

\* An enumeration that matches every file
GlobCsvAll(dir) == {PathOf(f) : f \in dir}

\* glob.glob('./*.csv'): '*' does not match a leading dot
GlobCsv(dir) ==
    {PathOf(f) : f \in {g \in dir : EndsWith(g.name, DotCsv)
                                     /\ ~StartsWith(g.name, <<".">>)}}

\* os.path.getctime(path)
GetCtime(dir, path) == (CHOOSE f \in dir : PathOf(f) = path).ctime

\* min instead of max
Oldest(dir, paths) ==
    {p \in paths : \A q \in paths : GetCtime(dir, p) <= GetCtime(dir, q)}

\* max(files, key=os.path.getctime): with equal keys, the first in glob's
\* order, which is not specified, so any of them
MostRecent(dir, paths) ==
    {p \in paths : \A q \in paths : GetCtime(dir, q) <= GetCtime(dir, p)}

\* A new name that keeps the './' of the old one in the middle
NewNameKeepsPrefix(aname, downloaded) ==
    DotSlash \o aname \o <<"_">> \o Slice(downloaded, 0, 4) \o DotCsv

\* f'./{aname}_{downloaded[2:-4]}.csv'
NewName(aname, downloaded) ==
    DotSlash \o aname \o <<"_">> \o Slice(downloaded, 2, 4) \o DotCsv

\* os.rename(src, dst), both './<name>': the file keeps its creation time
Rename(dir, src, dst) ==
    LET f == CHOOSE g \in dir : PathOf(g) = src
    IN  (dir \ {f}) \cup {[f EXCEPT !.name = Slice(dst, 2, 0)]}

(***************************************************************************)
(* The portal and the browser, as far as the script reads them             *)
(***************************************************************************)
\* 'https://www.dennisconnect.co.uk/'
PortalRoot == <<"h","t","t","p","s",":","/","/","w","w","w",".","d","e","n","n","i","s","c","o","n","n","e","c","t",".","c","o",".","u","k","/">>
\* 'Cookie Usage'
CookieUsage == <<"C","o","o","k","i","e"," ","U","s","a","g","e">>
\* 'Login'
LoginWord == <<"L","o","g","i","n">>
\* '####', the account, username and password __main__ passes
Credential == <<"#","#","#","#">>

\* Page titles the portal may show: the cookie page, two login pages, the
\* page of a signed-in session, and two near misses of the tested titles
Titles == {
    CookieUsage,
    LoginWord,
    <<"D","e","n","n","i","s","C","o","n","n","e","c","t"," ","L","o","g","i","n">>,
    <<"D","e","n","n","i","s"," ","C","o","n","n","e","c","t">>,
    <<"l","o","g","i","n">>,
    <<"C","o","o","k","i","e"," ","U","s","a","g","e"," ">>}

LoginElements == {"btnAccept", "txtAccountNumber", "txtUserName", "txtPassword"}

\* Registrations and the value attribute of their dropdown option
RegA == <<"A">>
RegB == <<"B">>
OptionValue(reg) == IF reg = RegA THEN <<"1","7">> ELSE <<"4","2">>

\* The dropdowns the history page may show
Dropdowns == {[r \in D |-> OptionValue(r)] : D \in SUBSET {RegA, RegB}}

\* The name the browser saves the export of the k-th vehicle under; the portal
\* is taken to name every export differently
PortalName(k) == <<"r", Digit(k)>> \o DotCsv

(***************************************************************************)
(* Exceptions                                                              *)
(***************************************************************************)
NoErr == [kind |-> "none", step |-> "none", k |-> 0]

\* A handler for one of the two classes, and one for every class
CaughtOnlyNoSuchElement == {"NoSuchElementException"}

CaughtEverything ==
    {"NoSuchElementException", "TimeoutException", "WebDriverException",
     "NoSuchFrameException", "ValueError", "FileExistsError", "FileNotFoundError"}

\* except (NoSuchElementException, TimeoutException) as exc
Caught == {"NoSuchElementException", "TimeoutException"}

\* The try statement spans setup_driver and the loop, not get_vehicles
InTry(step) == step # "get_vehicles"

\* An exception of class kind leaves step: the handler logs it and the script
\* ends, or nothing catches it and the interpreter ends with a traceback
Raise(kind, step) ==
    /\ err' = [kind |-> kind, step |-> step, k |-> i]
    /\ IF InTry(step) /\ kind \in Caught
       THEN /\ log' = Append(log, [level |-> "ERROR", exc |-> kind])
            /\ pc' = "exited"
       ELSE /\ log' = log
            /\ pc' = "crashed"

Call(step) == trace' = Append(trace, [step |-> step, k |-> i])

\* A loop that ends after its first pass
ForSkipsRest(k) == "done"

\* for vehicle in vehicles: the body runs for position k, or the loop is over
For(k) == IF k <= Len(vehicles) THEN "login" ELSE "done"

(***************************************************************************)
(* login                                                                   *)
(***************************************************************************)
\* The longest prefix of the lookups that finds its element
RECURSIVE Found(_, _)
Found(lookups, absent) ==
    IF lookups = <<>> \/ Head(lookups) \in absent THEN <<>>
    ELSE <<Head(lookups)>> \o Found(Tail(lookups), absent)

\* A cookie check that looks for the title's text instead of comparing it
AcceptLookupsBySubstring(title) ==
    IF Contains(title, CookieUsage) THEN <<"btnAccept">> ELSE <<>>

\* if driver.title == 'Cookie Usage': find_element_by_id('btnAccept')
AcceptLookups(title) == IF title = CookieUsage THEN <<"btnAccept">> ELSE <<>>

\* if 'Login' in driver.title: the three find_element_by_id of the form
FormLookups(title) ==
    IF Contains(title, LoginWord)
    THEN <<"txtAccountNumber", "txtUserName", "txtPassword">>
    ELSE <<>>

\* What login() does with an element once found
Interact(el) ==
    IF el = "btnAccept" THEN <<[el |-> el, op |-> "click", keys |-> <<>>]>>
    ELSE IF el = "txtPassword"
         THEN <<[el |-> el, op |-> "send_keys", keys |-> Credential],
                [el |-> el, op |-> "send_keys", keys |-> <<"RETURN">>]>>
         ELSE <<[el |-> el, op |-> "send_keys", keys |-> Credential]>>

RECURSIVE Interactions(_)
Interactions(els) ==
    IF els = <<>> THEN <<>> ELSE Interact(Head(els)) \o Interactions(Tail(els))

(***************************************************************************)
(* __main__                                                                *)
(***************************************************************************)
\* vehicles = get_vehicles('./vehicles_list.txt')
Load ==
    /\ pc = "load"
    /\ Call("get_vehicles")
    /\ IF vehicles_f.exists
       THEN /\ vehicles' = GetVehicles(vehicles_f.data)
            /\ pc' = "setup"
            /\ UNCHANGED <<log, err>>
       ELSE /\ Raise("FileNotFoundError", "get_vehicles")
            /\ UNCHANGED vehicles
    /\ UNCHANGED <<vehicles_f, i, vehicle_id, today, url, titles, ui, files,
                   pending, clock, renames>>

\* driver = setup_driver(True, directory)
SetupDriver ==
    /\ pc = "setup"
    /\ Call("setup_driver")
    /\ \E started \in BOOLEAN :
          IF started
          THEN /\ pc' = For(1)
               /\ i' = 1
               /\ UNCHANGED <<log, err>>
          ELSE /\ Raise("WebDriverException", "setup_driver")
               /\ UNCHANGED i
    /\ UNCHANGED <<vehicles_f, vehicles, vehicle_id, today, url, titles, ui,
                   files, pending, clock, renames>>

\* login(driver, '####', '####', '####')
Login ==
    /\ pc = "login"
    /\ Call("login")
    /\ url' = PortalRoot
    /\ \E got \in {"ok", "TimeoutException", "WebDriverException"} :
          IF got # "ok"
          THEN /\ Raise(got, "login")
               /\ titles' = <<>>
               /\ ui' = <<>>
          ELSE \E first \in Titles, second \in Titles, missing \in LoginElements \cup {"none"} :
                  LET accept == Found(AcceptLookups(first), {missing})
                      form == Found(FormLookups(second), {missing})
                  IN  IF Len(accept) < Len(AcceptLookups(first))
                      THEN /\ titles' = <<first>>
                           /\ ui' = <<>>
                           /\ Raise("NoSuchElementException", "login")
                      ELSE /\ titles' = <<first, second>>
                           /\ ui' = Interactions(accept \o form)
                           /\ IF Len(form) < Len(FormLookups(second))
                              THEN Raise("NoSuchElementException", "login")
                              ELSE /\ pc' = "history"
                                   /\ UNCHANGED <<log, err>>
    /\ UNCHANGED <<vehicles_f, vehicles, i, vehicle_id, today, files, pending,
                   clock, renames>>

\* What go_to_history() has done to the page when it ends with got
HistoryUi(got) ==
    LET tab == [el |-> "tabContainer/li[3]", op |-> "click", keys |-> <<>>]
        list == [el |-> "ctl00_cphcontent_htPingList", op |-> "click", keys |-> <<>>]
    IN  IF got = "NoSuchElementException" THEN <<>>
        ELSE IF got = "ok" THEN <<tab, list>>
        ELSE <<tab>>

\* go_to_history(driver): the tab may be missing, the frame may be missing,
\* the wait for the ping list may time out
GoToHistory ==
    /\ pc = "history"
    /\ Call("go_to_history")
    /\ titles' = <<>>
    /\ \E got \in {"ok", "NoSuchElementException", "NoSuchFrameException",
                   "TimeoutException"} :
          /\ ui' = HistoryUi(got)
          /\ IF got = "ok"
             THEN /\ pc' = "resolve"
                  /\ UNCHANGED <<log, err>>
             ELSE Raise(got, "go_to_history")
    /\ UNCHANGED <<vehicles_f, vehicles, i, vehicle_id, today, url, files,
                   pending, clock, renames>>

\* What get_vehicle_id() does to the page: it selects the option, then clicks
\* the run button
ResolveUi(vehicle) ==
    <<[el |-> "ctl00_cphcontent_ddlVehicle", op |-> "select_by_visible_text",
       keys |-> vehicle],
      [el |-> "ctl00_cphcontent_btnRunHistory", op |-> "click", keys |-> <<>>]>>

\* vehicle_id = get_vehicle_id(driver, vehicle): the dropdown or the run
\* button may be missing, and so may the option of the vehicle
GetVehicleId ==
    /\ pc = "resolve"
    /\ Call("get_vehicle_id")
    /\ titles' = <<>>
    /\ \E dropdown \in Dropdowns,
          missing \in {"none", "ctl00_cphcontent_ddlVehicle",
                       "ctl00_cphcontent_btnRunHistory"} :
          LET vehicle == vehicles[i]
              selected == /\ missing # "ctl00_cphcontent_ddlVehicle"
                          /\ vehicle \in DOMAIN dropdown
          IN  IF selected /\ missing = "none"
              THEN /\ ui' = ResolveUi(vehicle)
                   /\ vehicle_id' = <<vehicle, dropdown[vehicle]>>
                   /\ pc' = "download"
                   /\ UNCHANGED <<log, err>>
              ELSE /\ ui' = IF selected THEN SubSeq(ResolveUi(vehicle), 1, 1) ELSE <<>>
                   /\ Raise("NoSuchElementException", "get_vehicle_id")
                   /\ UNCHANGED vehicle_id
    /\ UNCHANGED <<vehicles_f, vehicles, i, today, url, files, pending, clock,
                   renames>>

\* download_csv(driver, vehicle_id), up to time.sleep(3)
DownloadCsvGet ==
    /\ pc = "download"
    /\ Call("download_csv")
    /\ url' = DownloadUrl(vehicle_id, today)
    /\ titles' = <<>>
    /\ ui' = <<>>
    /\ \E got \in {"ok", "TimeoutException", "WebDriverException"} :
          IF got = "ok"
          THEN /\ pending' = pending \cup {i}
               /\ pc' = "select"
               /\ UNCHANGED <<log, err>>
          ELSE /\ Raise(got, "download_csv")
               /\ UNCHANGED pending
    /\ UNCHANGED <<vehicles_f, vehicles, i, vehicle_id, today, files, clock,
                   renames>>

\* The browser finishes a download: the file appears in the directory
DownloadCompletes ==
    \E k \in pending :
        /\ files' = files \cup {[name |-> PortalName(k), ctime |-> clock, origin |-> k]}
        /\ pending' = pending \ {k}
        /\ clock' = clock + 1
        /\ UNCHANGED <<pc, vehicles_f, vehicles, i, vehicle_id, today, url,
                       titles, ui, log, err, trace, renames>>

\* download_csv after the sleep: glob, max, os.rename; then the loop goes on
DownloadCsvRename ==
    /\ pc = "select"
    /\ LET csvs == GlobCsv(files)
           aname == vehicle_id[1]
       IN  IF csvs = {}
           THEN /\ Raise("ValueError", "download_csv")
                /\ UNCHANGED <<files, renames, i>>
           ELSE \E downloaded \in MostRecent(files, csvs) :
                   LET newname == NewName(aname, downloaded)
                   IN  IF newname \in {PathOf(f) : f \in files}
                       THEN /\ Raise("FileExistsError", "download_csv")
                            /\ UNCHANGED <<files, renames, i>>
                       ELSE /\ files' = Rename(files, downloaded, newname)
                            /\ renames' = Append(renames,
                                 [k |-> i, src |-> downloaded, dst |-> newname,
                                  origin |-> (CHOOSE f \in files : PathOf(f) = downloaded).origin,
                                  late |-> i \in pending])
                            /\ i' = i + 1
                            /\ pc' = For(i + 1)
                            /\ UNCHANGED <<log, err>>
    /\ UNCHANGED <<vehicles_f, vehicles, vehicle_id, today, url, titles, ui,
                   pending, clock, trace>>

(***************************************************************************)
(* The whole script                                                        *)
(***************************************************************************)
\* Lines a vehicle list is made of in a run of the whole script
ListLines == {<<"A", "\n">>, <<"#", "B", "\n">>, <<"B", "\n">>}

VehicleLists ==
    {[exists |-> TRUE, data |-> Join(ls)] : ls \in SeqsUpTo(ListLines, MaxLines)}
        \cup {[exists |-> FALSE, data |-> <<>>]}

\* The script's own files, and a CSV file left over from before the run
OwnFiles(list) ==
    {[name |-> <<"g","e","t","_","r","o","u","t","e","s",".","l","o","g">>,
      ctime |-> 0, origin |-> 0]}
    \cup (IF list.exists
          THEN {[name |-> <<"v","e","h","i","c","l","e","s","_","l","i","s","t",".","t","x","t">>,
                 ctime |-> 0, origin |-> 0]}
          ELSE {})

OldCsv == [name |-> <<"o","l","d",".","c","s","v">>, ctime |-> 0, origin |-> 0]

RunDay == [year |-> 2024, month |-> 3, day |-> 15]

Init ==
    /\ pc = "load"
    /\ vehicles_f \in VehicleLists
    /\ vehicles = <<>>
    /\ i = 0
    /\ vehicle_id = <<>>
    /\ today = RunDay
    /\ url = <<>>
    /\ titles = <<>>
    /\ ui = <<>>
    /\ files \in {OwnFiles(vehicles_f) \cup old : old \in SUBSET {OldCsv}}
    /\ pending = {}
    /\ clock = 1
    /\ log = <<>>
    /\ err = NoErr
    /\ trace = <<>>
    /\ renames = <<>>

Next ==
    \/ Load
    \/ SetupDriver
    \/ Login
    \/ GoToHistory
    \/ GetVehicleId
    \/ DownloadCsvGet
    \/ DownloadCompletes
    \/ DownloadCsvRename

Spec == Init /\ [][Next]_vars

(***************************************************************************)
(* get_vehicles alone, on every short text                                 *)
(***************************************************************************)
FileAlphabet == {"#", " ", "A", "\n"}

InitLoader ==
    /\ pc = "load"
    /\ vehicles_f \in {[exists |-> TRUE, data |-> text] :
                          text \in SeqsUpTo(FileAlphabet, MaxFileLen)}
                      \cup {[exists |-> FALSE, data |-> <<>>]}
    /\ vehicles = <<>>
    /\ i = 0
    /\ vehicle_id = <<>>
    /\ today = RunDay
    /\ url = <<>>
    /\ titles = <<>>
    /\ ui = <<>>
    /\ files = OwnFiles(vehicles_f)
    /\ pending = {}
    /\ clock = 1
    /\ log = <<>>
    /\ err = NoErr
    /\ trace = <<>>
    /\ renames = <<>>

SpecLoader == InitLoader /\ [][Load]_vars

(***************************************************************************)
(* download_csv alone: the script is about to call it for its one vehicle  *)
(***************************************************************************)
\* Pieces registrations and option values are made of
NamePieces == {<<"A", "7">>, UrlAname}

Names == {Join(ps) : ps \in SeqsUpTo(NamePieces, MaxTok)}

Years == {2000, 2023, 2024, 2100}

Days ==
    {[year |-> y, month |-> m, day |-> d] :
        y \in Years, m \in 1..12, d \in 1..31} \ 
    {x \in [year : Years, month : 1..12, day : 1..31] :
        x.day > DaysInMonth(x.year, x.month)}

\* The state of a run of the whole script on the list <<reg>> when the
\* first n calls of the first vehicle have been made without an exception
MidRun(reg, n) ==
    /\ vehicles_f = [exists |-> TRUE, data |-> reg \o <<"\n">>]
    /\ vehicles = <<reg>>
    /\ i = 1
    /\ titles = <<>>
    /\ ui = IF n = 3 THEN ResolveUi(reg) ELSE <<>>
    /\ clock = 1
    /\ log = <<>>
    /\ err = NoErr
    /\ trace = <<[step |-> "get_vehicles", k |-> 0],
                 [step |-> "setup_driver", k |-> 0]>>
               \o [j \in 1..n |->
                     [step |-> <<"login", "go_to_history", "get_vehicle_id",
                                 "download_csv">>[j],
                      k |-> 1]]
    /\ renames = <<>>

InitUrl ==
    /\ pc = "download"
    /\ vehicle_id \in Names \X Names
    /\ today \in Days
    /\ url = PortalRoot
    /\ files = OwnFiles([exists |-> TRUE])
    /\ pending = {}
    /\ MidRun(vehicle_id[1], 3)

SpecUrl == InitUrl /\ [][DownloadCsvGet]_vars

(***************************************************************************)
(* The renaming alone: download_csv wakes from its sleep                   *)
(***************************************************************************)
DirNames == {
    <<"a",".","c","s","v">>,
    <<"A","B","C","1","2","3","_","2","0","2","4","0","3","1","4",".","c","s","v">>,
    <<"X","Y","Z","_","a",".","c","s","v">>,
    <<".","c","s","v">>,
    <<"b",".","t","x","t">>}

RenameRegs == {<<"X","Y","Z">>, <<"A">>, <<>>}

Dirs ==
    {dir \in SUBSET [name : DirNames, ctime : 0..MaxDirFiles, origin : {0}] :
        /\ Cardinality(dir) <= MaxDirFiles
        /\ \A f, g \in dir : f.name = g.name => f = g}

InitRename ==
    /\ pc = "select"
    /\ vehicle_id \in {<<reg, OptionValue(reg)>> : reg \in RenameRegs}
    /\ today = RunDay
    /\ url = DownloadUrl(vehicle_id, today)
    /\ files \in {OwnFiles([exists |-> TRUE]) \cup dir : dir \in Dirs}
    /\ pending = {1}
    /\ MidRun(vehicle_id[1], 4)

SpecRename == InitRename /\ [][DownloadCsvRename]_vars

(***************************************************************************)
(* Properties                                                              *)
(***************************************************************************)
Last(seq) == seq[Len(seq)]

\* line is pre \o core \o post with pre and post all whitespace, and core
\* neither starts nor ends with whitespace
IsTrimOf(core, line) ==
    LET ws == {" ", "\t", "\n", "\r"}
    IN  /\ core = <<>> \/ (core[1] \notin ws /\ core[Len(core)] \notin ws)
        /\ \E a \in 0..Len(line) :
              /\ a + Len(core) <= Len(line)
              /\ SubSeq(line, a + 1, a + Len(core)) = core
              /\ \A k \in 1..a : line[k] \in ws
              /\ \A k \in (a + Len(core) + 1)..Len(line) : line[k] \in ws

\* lines are the lines of text: they make up the text, and each ends at the
\* first newline after its start (the last one perhaps at the end of the text)
AreLinesOf(lines, text) ==
    /\ Join(lines) = text
    /\ \A j \in 1..Len(lines) :
          /\ lines[j] # <<>>
          /\ \A k \in 1..(Len(lines[j]) - 1) : lines[j][k] # "\n"
          /\ j < Len(lines) => Last(lines[j]) = "\n"

\* C1: get_vehicles returns exactly the lines that do not start with '#', each
\* with its leading and trailing whitespace removed, in their order in the
\* file, nothing added and nothing dropped; a file of comment lines only
\* gives the empty list.
C1_LoaderKeepsNonCommentLines ==
    (pc = "setup") =>
        LET lines == ReadLines(vehicles_f.data)
            keep == {j \in 1..Len(lines) : lines[j][1] # "#"}
            nth(n) == CHOOSE j \in keep : Cardinality({m \in keep : m <= j}) = n
        IN  /\ AreLinesOf(lines, vehicles_f.data)
            /\ Len(vehicles) = Cardinality(keep)
            /\ \A n \in 1..Len(vehicles) : IsTrimOf(vehicles[n], lines[nth(n)])
            /\ (keep = {}) => vehicles = <<>>

\* A comment line is dropped and the line after it is stripped
C1_CommentDroppedLineStripped ==
    /\ pc = "setup"
    /\ vehicles_f.data = <<"#", "\n", " ", "A">>
    /\ vehicles = << <<"A">> >>

\* The calls of a run that ends without an exception: the loader, the
\* session, then the four steps of each vehicle in turn
RECURSIVE IterationsFrom(_, _)
IterationsFrom(k, n) ==
    IF k > n THEN <<>>
    ELSE <<[step |-> "login", k |-> k], [step |-> "go_to_history", k |-> k],
           [step |-> "get_vehicle_id", k |-> k], [step |-> "download_csv", k |-> k]>>
         \o IterationsFrom(k + 1, n)

CallsOf(step) == {n \in 1..Len(trace) : trace[n].step = step}

\* C2: in a run where no step fails the session is set up once, before any
\* vehicle, and then for each vehicle of the loaded list, in list order, login,
\* go_to_history, get_vehicle_id and download_csv run once each in that order;
\* a login starts only after the download_csv of the vehicle before has
\* returned; N vehicles give N iterations and N renames.
C2_OneOrderedIterationPerVehicle ==
    /\ Cardinality(CallsOf("login")) <= Len(renames) + 1
    /\ (pc = "done") =>
          /\ vehicles = GetVehicles(vehicles_f.data)
          /\ trace = <<[step |-> "get_vehicles", k |-> 0],
                       [step |-> "setup_driver", k |-> 0]>>
                     \o IterationsFrom(1, Len(vehicles))
          /\ Len(renames) = Len(vehicles)
          /\ \A n \in 1..Len(renames) :
                /\ renames[n].k = n
                /\ StartsWith(renames[n].dst, <<".", "/">> \o vehicles[n] \o <<"_">>)

\* The list A, #B, B: two vehicles, two iterations, two renames
C2_TwoVehiclesDone ==
    /\ pc = "done"
    /\ vehicles_f.data = <<"A", "\n", "#", "B", "\n", "B", "\n">>
    /\ vehicles = << <<"A">>, <<"B">> >>
    /\ Len(renames) = 2
    /\ Len(trace) = 10

\* C3: a NoSuchElementException or TimeoutException raised by a step of a
\* vehicle's iteration is caught once, by the handler around the loop, and
\* logged once; the step is not retried and no step runs after it, for that
\* vehicle or any later one.
C3_CaughtLoggedOnceAndBatchEnds ==
    (err.kind \in {"NoSuchElementException", "TimeoutException"}) =>
        /\ pc = "exited"
        /\ log = <<[level |-> "ERROR", exc |-> err.kind]>>
        /\ Last(trace) = [step |-> err.step, k |-> err.k]
        /\ Cardinality({n \in 1..Len(trace) : trace[n] = Last(trace)}) = 1
        /\ \A n \in 1..Len(trace) : trace[n].k <= err.k
        /\ Len(renames) = err.k - 1

\* The resolver finds no option for the first of two vehicles
C3_ResolverFailsBeforeLastVehicle ==
    /\ err = [kind |-> "NoSuchElementException", step |-> "get_vehicle_id", k |-> 1]
    /\ Len(vehicles) = 2
    /\ pc = "exited"

\* C5: an exception that is neither NoSuchElementException nor
\* TimeoutException is not caught by the handler: the handler writes nothing
\* to the log, the process ends, and no remaining vehicle is processed.
C5_OtherErrorsEndTheProcessUnlogged ==
    (err.kind \notin {"none", "NoSuchElementException", "TimeoutException"}) =>
        /\ pc = "crashed"
        /\ log = <<>>
        /\ Last(trace) = [step |-> err.step, k |-> err.k]
        /\ \A n \in 1..Len(trace) : trace[n].k <= err.k
        /\ Len(renames) <= err.k

\* The history frame is missing for the first of two vehicles
C5_FrameMissingBeforeLastVehicle ==
    /\ err = [kind |-> "NoSuchFrameException", step |-> "go_to_history", k |-> 1]
    /\ Len(vehicles) = 2
    /\ pc = "crashed"

\* No file of the directory has a name ending in .csv
NoCsv(dir) == \A f \in dir : ~EndsWith(f.name, <<".", "c", "s", "v">>)

\* download_csv wakes from its sleep and finds no CSV file
SelectsWithNoCsv == pc = "select" /\ NoCsv(files) /\ pc' # pc

\* C4, as claimed: with no CSV file in the directory download_csv fails
\* silently: no error is surfaced, no file is renamed, and the batch goes on
\* with the next vehicle.
C4_NoCsvFailsSilently ==
    [][SelectsWithNoCsv =>
          /\ err' = NoErr
          /\ renames' = renames
          /\ files' = files
          /\ pc' \in {"login", "done"}]_vars

\* C4, amended: with no CSV file in the directory max() raises ValueError out
\* of download_csv; the handler does not catch it, so nothing is logged and no
\* file is renamed, the process ends, and no call is made afterwards.
C4_NoCsvRaisesAndEndsTheBatch ==
    [][/\ SelectsWithNoCsv =>
            /\ err' = [kind |-> "ValueError", step |-> "download_csv", k |-> i]
            /\ pc' = "crashed"
            /\ log' = log
            /\ renames' = renames
            /\ files' = files
       /\ (err.kind = "ValueError") =>
            /\ pc' = "crashed"
            /\ trace' = trace
            /\ renames' = renames
            /\ log' = log]_vars

\* The directory holds no CSV file when the first of two vehicles is renamed
C4_NoCsvOnFirstOfTwoVehicles ==
    /\ err = [kind |-> "ValueError", step |-> "download_csv", k |-> 1]
    /\ Len(vehicles) = 2
    /\ NoCsv(files)
    /\ pc = "crashed"

\* C9: the renamed file of vehicle k is another file than the one k's download
\* produced only in a run where a download had not finished when download_csv
\* woke from its fixed sleep; and such a run exists (C9_StrayRenamedTwice): it
\* ends without a correctly named file for every processed vehicle.
C9_MisattributedOnlyAfterLateDownload ==
    \A n \in 1..Len(renames) :
        (renames[n].origin # renames[n].k) => \E m \in 1..n : renames[m].late

\* The file the export of vehicle k should end up as
AttributedName(k) == vehicles[k] \o <<"_">> \o PortalName(k)

\* Both downloads are late: the old CSV file is renamed for the first vehicle
\* and its new name is renamed again for the second; the run ends normally and
\* neither vehicle has its file
C9_StrayRenamedTwice ==
    /\ pc = "done"
    /\ Len(renames) = 2
    /\ renames[1].origin = 0
    /\ renames[2].src = renames[1].dst
    /\ \A k \in 1..Len(vehicles) :
          ~\E f \in files : f.origin = k /\ f.name = AttributedName(k)

\* login() was the last call made
LoginJustRan == trace # <<>> /\ Last(trace).step = "login"

HasLoginWord(title) ==
    \E a \in 1..(Len(title) - 4) : SubSeq(title, a, a + 4) = <<"L", "o", "g", "i", "n">>

UiOn(el, keys) == {n \in 1..Len(ui) : ui[n].el = el /\ ui[n].keys = keys}

FormUi == {n \in 1..Len(ui) : ui[n].el # "btnAccept"}

\* What C10 says of the page interactions of one call of login
LoginInteractsByTitle ==
    /\ \A n \in 1..Len(ui) :
          ui[n].el \in {"btnAccept", "txtAccountNumber", "txtUserName", "txtPassword"}
    /\ Cardinality(UiOn("btnAccept", <<>>)) <= 1
    /\ UiOn("btnAccept", <<>>) # {} =>
          /\ titles[1] = <<"C","o","o","k","i","e"," ","U","s","a","g","e">>
          /\ ui[1].el = "btnAccept" /\ ui[1].op = "click"
    /\ Cardinality(UiOn("txtAccountNumber", Credential)) <= 1
    /\ Cardinality(UiOn("txtUserName", Credential)) <= 1
    /\ Cardinality(UiOn("txtPassword", Credential)) <= 1
    /\ Cardinality(UiOn("txtPassword", <<"RETURN">>)) <= 1
    /\ Cardinality(FormUi) <= 4
    /\ FormUi # {} => Len(titles) = 2 /\ HasLoginWord(titles[2])
    /\ (Len(titles) = 2 /\ titles[1] # CookieUsage /\ ~HasLoginWord(titles[2])) =>
          ui = <<>> /\ err = NoErr /\ pc = "history"

\* C10, as claimed: login clicks the accept control at most once and only on
\* the title 'Cookie Usage', fills and submits the form at most once and only
\* if the title read after the cookie check contains 'Login', does nothing to
\* the page when neither holds, and in all three cases go_to_history is next.
C10_LoginThenAlwaysHistory ==
    (LoginJustRan /\ titles # <<>>) =>
        /\ LoginInteractsByTitle
        /\ pc = "history"

\* C10, amended: the same, except that go_to_history is next only when login
\* returns; when the accept control or a form field is not found login raises
\* NoSuchElementException, the handler logs it and the run ends.
C10_LoginThenHistoryUnlessLookupFails ==
    (LoginJustRan /\ titles # <<>>) =>
        /\ LoginInteractsByTitle
        /\ \/ pc = "history" /\ err = NoErr
           \/ /\ pc = "exited"
              /\ err = [kind |-> "NoSuchElementException", step |-> "login", k |-> i]
              /\ \/ Len(titles) = 1 /\ titles[1] = CookieUsage /\ ui = <<>>
                 \/ Len(titles) = 2 /\ HasLoginWord(titles[2]) /\ Cardinality(FormUi) < 3

\* The cookie page, then the login page: one click, the form filled and
\* submitted, and go_to_history is next
C10_CookieThenLoginForm ==
    /\ LoginJustRan
    /\ titles = <<CookieUsage, LoginWord>>
    /\ Len(ui) = 5
    /\ pc = "history"

\* The files glob enumerates: a name ending in .csv and not starting with a dot
Enumerated(dir) ==
    {f \in dir : EndsWith(f.name, <<".", "c", "s", "v">>) /\ f.name[1] # "."}

TemplateHead == <<"h","t","t","p","s",":","/","/","w","w","w",".","d","e","n","n","i","s","c","o","n","n","e","c","t",".","c","o",".","u","k","/","_","h","a","n","d","l","e","r","/","c","s","v",".","a","s","h","x","?","r","e","q","=","H","I","S","T","O","R","Y","_","L","I","S","T","&","s","d","a","t","e","=">>
\* '%2000:00&edate='
TemplateMid == <<"%","2","0","0","0",":","0","0","&","e","d","a","t","e","=">>
\* '%2023:59&atype=V&aid='
TemplateEnd == <<"%","2","0","2","3",":","5","9","&","a","t","y","p","e","=","V","&","a","i","d","=">>
\* '&aname='
TemplateAname == <<"&","a","n","a","m","e","=">>
\* '&locfil=&useshape=false&dtl=0&s2r=false&showdriverbehavioralalerts=false'
TemplateTailOfSpec == <<"&","l","o","c","f","i","l","=","&","u","s","e","s","h","a","p","e","=","f","a","l","s","e","&","d","t","l","=","0","&","s","2","r","=","f","a","l","s","e","&","s","h","o","w","d","r","i","v","e","r","b","e","h","a","v","i","o","r","a","l","a","l","e","r","t","s","=","f","a","l","s","e">>
\* '&locfil=&useshape=false&dtl=0&s2r=false&showdriverbehavioralerts=false'
TemplateTailOfCode == <<"&","l","o","c","f","i","l","=","&","u","s","e","s","h","a","p","e","=","f","a","l","s","e","&","d","t","l","=","0","&","s","2","r","=","f","a","l","s","e","&","s","h","o","w","d","r","i","v","e","r","b","e","h","a","v","i","o","r","a","l","e","r","t","s","=","f","a","l","s","e">>

DigitChars == <<"0", "1", "2", "3", "4", "5", "6", "7", "8", "9">>

IsNumber(cs) == \A k \in 1..Len(cs) : \E n \in 1..10 : DigitChars[n] = cs[k]

RECURSIVE NumberOf(_)
NumberOf(cs) ==
    IF cs = <<>> THEN 0
    ELSE 10 * NumberOf(SubSeq(cs, 1, Len(cs) - 1))
           + (CHOOSE n \in 1..10 : DigitChars[n] = Last(cs)) - 1

\* Days from 01/01/0001 to the day d/m/y, in the Gregorian calendar
DayNumber(y, m, d) ==
    LET leap == (y % 4 = 0 /\ y % 100 # 0) \/ y % 400 = 0
        before == <<0, 31, 59, 90, 120, 151, 181, 212, 243, 273, 304, 334>>
        p == y - 1
    IN  365 * p + (p \div 4) - (p \div 100) + (p \div 400)
          + before[m] + (IF leap /\ m > 2 THEN 1 ELSE 0) + d

\* text is DD/MM/YYYY for the day before the day now
IsDayBefore(text, now) ==
    /\ Len(text) = 10
    /\ text[3] = "/" /\ text[6] = "/"
    /\ IsNumber(SubSeq(text, 1, 2) \o SubSeq(text, 4, 5) \o SubSeq(text, 7, 10))
    /\ LET d == NumberOf(SubSeq(text, 1, 2))
           m == NumberOf(SubSeq(text, 4, 5))
           y == NumberOf(SubSeq(text, 7, 10))
       IN  /\ m \in 1..12 /\ d \in 1..31
           /\ DayNumber(y, m, d) + 1 = DayNumber(now.year, now.month, now.day)

\* The export template with its values substituted, ending in tail
IsExportUrl(tail) ==
    LET D == SubSeq(url, Len(TemplateHead) + 1, Len(TemplateHead) + 10)
    IN  /\ IsDayBefore(D, today)
        /\ url = TemplateHead \o D \o TemplateMid \o D \o TemplateEnd
                   \o vehicle_id[2] \o TemplateAname \o vehicle_id[1] \o tail

\* C7, as claimed: the URL download_csv navigates to is the template of the
\* specification, whose last parameter is showdriverbehavioralalerts, with the
\* option value and the registration substituted and both dates the day
\* before the run as DD/MM/YYYY.
C7_UrlIsTemplateOfSpec == (pc # "download") => IsExportUrl(TemplateTailOfSpec)

\* C7, amended: the same with the last parameter named as in the code,
\* showdriverbehavioralerts.
C7_UrlIsTemplateOfCode == (pc # "download") => IsExportUrl(TemplateTailOfCode)

\* On 15/03/2024 both dates of the URL are 14/03/2024
C7_SpecExampleDate ==
    /\ pc = "select"
    /\ today = [year |-> 2024, month |-> 3, day |-> 15]
    /\ vehicle_id = << <<"A", "7">>, <<"A", "7">> >>
    /\ SubSeq(url, 74, 83) = <<"1","4","/","0","3","/","2","0","2","4">>
    /\ SubSeq(url, 99, 108) = <<"1","4","/","0","3","/","2","0","2","4">>

\* C8: for a fixed run date two distinct (registration, option value) pairs
\* give distinct URLs, which differ only where the two are substituted.
C8_UrlIsInjective ==
    (pc # "download") =>
        \A other \in Names \X Names :
            (other # vehicle_id) =>
                LET u == DownloadUrl(other, today)
                    h == Len(TemplateHead) + 10 + Len(TemplateMid) + 10
                           + Len(TemplateEnd)
                    t == Len(TemplateTailOfCode)
                IN  /\ u # url
                    /\ SubSeq(u, 1, h) = SubSeq(url, 1, h)
                    /\ SubSeq(u, Len(u) - t + 1, Len(u))
                         = SubSeq(url, Len(url) - t + 1, Len(url))

====
